---------------------------- MODULE Spec2Model ----------------------------
(***************************************************************************)
(* Model of the Shopify redirect matcher (src/app.py).                     *)
(*                                                                         *)
(* The program is a Streamlit script: every user event (a file upload, a   *)
(* key entry, a button click, a plain re-render) runs the script from top  *)
(* to bottom against st.session_state, which persists between runs.  An    *)
(* uncaught exception ends the run; what the run stored in session_state   *)
(* before it stays stored.                                                 *)
(*                                                                         *)
(* Text is a sequence of one-character strings.  Similarity scores are     *)
(* exact fractions [n, d] in lowest terms (the library computes them as    *)
(* floats; every comparison the program makes is a comparison of the       *)
(* underlying fractions).                                                  *)
(***************************************************************************)
EXTENDS Integers, Sequences, FiniteSets, TLC

(***************************************************************************)
(* Bounds of the model.                                                    *)
(***************************************************************************)
MaxRows == 2           \* rows of an uploaded broken_links.csv
MaxCatalog == 2        \* rows of an uploaded product_titles.csv
MaxTranslate == 2      \* clicks on "Translate Now" in one session
MaxBrokenUploads == 2  \* changes of the broken_links.csv uploader in one session
MaxProductUploads == 1 \* changes of the product_titles.csv uploader in one session
MaxText == 4           \* characters of a text handed to normalize on its own
MaxNormalize == 2      \* applications of normalize to one text

(***************************************************************************)
(* Text.                                                                   *)
(***************************************************************************)
\* A value that may be Python's None is None or Some(v); Get(Some(v)) = v.
None == <<>>
Some(v) == <<v>>
Get(m) == m[1]

\* a value that is not a string (a missing cell read from a file)
NotAString == <<"NaN">>

LowerCase == {"a", "b", "c", "f", "t"}
UpperCase == {"A", "B", "C", "F", "T"}
Digits == {"1"}
WhiteSpace == {" ", "\t"}

\* str.lower() on one character
lower(c) ==
    CASE c = "A" -> "a"
      [] c = "B" -> "b"
      [] c = "C" -> "c"
      [] c = "F" -> "f"
      [] c = "T" -> "t"
      [] OTHER -> c

\* code point order of the characters that survive normalize
Ord(c) ==
    CASE c = " " -> 32
      [] c = "1" -> 49
      [] c = "a" -> 97
      [] c = "b" -> 98
      [] c = "c" -> 99
      [] c = "f" -> 102
      [] c = "t" -> 116
      [] OTHER -> 200

RECURSIVE MapLower(_)
MapLower(s) ==
    IF s = <<>> THEN <<>> ELSE <<lower(Head(s))>> \o MapLower(Tail(s))

\* re.sub(r'[^a-z0-9\s]', '', text)
RECURSIVE StripOther(_)
StripOther(s) ==
    IF s = <<>> THEN <<>>
    ELSE IF Head(s) \in LowerCase \cup Digits \cup WhiteSpace
         THEN <<Head(s)>> \o StripOther(Tail(s))
         ELSE StripOther(Tail(s))

\* re.sub(r'\s+', ' ', text)
RECURSIVE CollapseSpace(_)
CollapseSpace(s) ==
    IF s = <<>> THEN <<>>
    ELSE IF Head(s) \in WhiteSpace
         THEN IF Tail(s) # <<>> /\ Head(Tail(s)) \in WhiteSpace
              THEN CollapseSpace(Tail(s))
              ELSE <<" ">> \o CollapseSpace(Tail(s))
         ELSE <<Head(s)>> \o CollapseSpace(Tail(s))

\* str.strip()
RECURSIVE LStrip(_)
LStrip(s) ==
    IF s # <<>> /\ Head(s) \in WhiteSpace THEN LStrip(Tail(s)) ELSE s

RECURSIVE RStrip(_)
RStrip(s) ==
    IF s # <<>> /\ s[Len(s)] \in WhiteSpace
    THEN RStrip(SubSeq(s, 1, Len(s) - 1))
    ELSE s

strip(s) == RStrip(LStrip(s))

\* a normalize that leaves runs of whitespace as they are
normalize_keeps_runs(text) ==
    IF text = NotAString THEN <<>>
    ELSE strip(StripOther(MapLower(text)))

\* normalize(text)
normalize(text) ==
    IF text = NotAString THEN <<>>
    ELSE strip(CollapseSpace(StripOther(MapLower(text))))

(***************************************************************************)
(* Scores: fractions in lowest terms.                                      *)
(***************************************************************************)
RECURSIVE GCD(_, _)
GCD(a, b) == IF b = 0 THEN a ELSE GCD(b, a % b)

Frac(n, d) == LET g == GCD(n, d) IN [n |-> n \div g, d |-> d \div g]

Zero == [n |-> 0, d |-> 1]
Hundred == [n |-> 100, d |-> 1]

\* x >= y, x > y on fractions; x >= k for an integer k
Geq(x, y) == x.n * y.d >= y.n * x.d
Gt(x, y) == x.n * y.d > y.n * x.d
GeqInt(x, k) == x.n >= k * x.d

FracMax(x, y) == IF Geq(x, y) THEN x ELSE y

(***************************************************************************)
(* rapidfuzz scorers.                                                      *)
(***************************************************************************)
\* length of the longest common subsequence
RECURSIVE LCS(_, _)
LCS(s, t) ==
    IF s = <<>> \/ t = <<>> THEN 0
    ELSE IF Head(s) = Head(t) THEN 1 + LCS(Tail(s), Tail(t))
    ELSE LET x == LCS(Tail(s), t)
             y == LCS(s, Tail(t))
         IN  IF x >= y THEN x ELSE y

\* fuzz.ratio: normalized Indel similarity, 0..100
ratio(s, t) ==
    LET lensum == Len(s) + Len(t)
    IN  IF lensum = 0 THEN Hundred
        ELSE Frac(100 * 2 * LCS(s, t), lensum)

\* the whitespace-separated tokens of s, as a set
RECURSIVE SplitTokens(_, _)
SplitTokens(s, cur) ==
    IF s = <<>> THEN (IF cur = <<>> THEN {} ELSE {cur})
    ELSE IF Head(s) \in WhiteSpace
         THEN (IF cur = <<>> THEN {} ELSE {cur}) \cup SplitTokens(Tail(s), <<>>)
         ELSE SplitTokens(Tail(s), Append(cur, Head(s)))

Tokens(s) == SplitTokens(s, <<>>)

\* lexicographic s < t by code point
RECURSIVE LexLess(_, _)
LexLess(s, t) ==
    IF t = <<>> THEN FALSE
    ELSE IF s = <<>> THEN TRUE
    ELSE IF Head(s) = Head(t) THEN LexLess(Tail(s), Tail(t))
    ELSE Ord(Head(s)) < Ord(Head(t))

\* " ".join(sorted(tokens))
RECURSIVE JoinSorted(_)
JoinSorted(toks) ==
    IF toks = {} THEN <<>>
    ELSE LET m == CHOOSE x \in toks : \A y \in toks \ {x} : LexLess(x, y)
             rest == toks \ {m}
         IN  IF rest = {} THEN m ELSE m \o <<" ">> \o JoinSorted(rest)

\* _norm_distance(dist, lensum)
norm_distance(dist, lensum) ==
    IF lensum = 0 THEN Hundred ELSE Frac(100 * lensum - 100 * dist, lensum)

\* fuzz.token_set_ratio, from the lengths on: the best of the ratio of the
\* two joined strings and of each against the common part
TokenSetOfLens(sect_len, ab_len, ba_len, sep, lcs) ==
    IF sect_len = 0
    THEN norm_distance(ab_len + ba_len - 2 * lcs, ab_len + ba_len)
    ELSE FracMax(norm_distance(ab_len + ba_len - 2 * lcs,
                               (sect_len + sep + ab_len) + (sect_len + sep + ba_len)),
                 FracMax(norm_distance(sep + ab_len, sect_len + (sect_len + sep + ab_len)),
                         norm_distance(sep + ba_len, sect_len + (sect_len + sep + ba_len))))

TokenSetOfJoined(sect_len, diff_ab_joined, diff_ba_joined) ==
    TokenSetOfLens(sect_len, Len(diff_ab_joined), Len(diff_ba_joined),
                   IF sect_len # 0 THEN 1 ELSE 0,
                   LCS(diff_ab_joined, diff_ba_joined))

\* one sentence is part of the other one: 100
TokenSetOfParts(intersect, diff_ab, diff_ba) ==
    IF intersect # {} /\ (diff_ab = {} \/ diff_ba = {}) THEN Hundred
    ELSE TokenSetOfJoined(Len(JoinSorted(intersect)), JoinSorted(diff_ab),
                          JoinSorted(diff_ba))

TokenSetOfTokens(tokens_a, tokens_b) ==
    IF tokens_a = {} \/ tokens_b = {} THEN Zero
    ELSE TokenSetOfParts(tokens_a \cap tokens_b, tokens_a \ tokens_b,
                         tokens_b \ tokens_a)

\* fuzz.token_set_ratio
token_set_ratio(s1, s2) == TokenSetOfTokens(Tokens(s1), Tokens(s2))

BestOf(all) == CHOOSE x \in all : \A y \in all : Geq(x, y)

\* _partial_ratio_impl(s1, s2), len(s1) <= len(s2): the best ratio of s1
\* against the prefixes, the full-length windows and the suffixes of s2 that
\* end (prefixes, windows) or start (suffixes) with a character of s1
PartialWindows(s1, s2, len1, len2, chars) ==
    {<<1, i>> : i \in {j \in 1..(len1 - 1) : s2[j] \in chars}}
        \cup {<<i + 1, i + len1>> :
                 i \in {j \in 0..(len2 - len1 - 1) : s2[j + len1] \in chars}}
        \cup {<<i + 1, len2>> :
                 i \in {j \in (len2 - len1)..(len2 - 1) : s2[j + 1] \in chars}}

partial_ratio_impl(s1, s2) ==
    IF s1 = <<>> THEN Zero
    ELSE BestOf({ratio(s1, SubSeq(s2, w[1], w[2])) :
                    w \in PartialWindows(s1, s2, Len(s1), Len(s2),
                                         {s1[i] : i \in 1..Len(s1)})}
                \cup {Zero})

\* strings of equal length are also tried the other way round
PartialBothWays(res, shorter, longer) ==
    IF res # Hundred /\ Len(shorter) = Len(longer)
    THEN FracMax(res, partial_ratio_impl(longer, shorter))
    ELSE res

\* fuzz.partial_ratio
partial_ratio(s1, s2) ==
    IF s1 = <<>> /\ s2 = <<>> THEN Hundred
    ELSE IF Len(s1) <= Len(s2)
    THEN PartialBothWays(partial_ratio_impl(s1, s2), s1, s2)
    ELSE PartialBothWays(partial_ratio_impl(s2, s1), s2, s1)

\* the scorers the script passes as scorer=
TSR == "token_set_ratio"
PR == "partial_ratio"

\* scorer(s1, s2)
Score(scorer, s1, s2) ==
    IF scorer = TSR THEN token_set_ratio(s1, s2) ELSE partial_ratio(s1, s2)

\* the score of query against every choice
Scores(query, choices, scorer) ==
    [i \in 1..Len(choices) |-> Score(scorer, query, choices[i])]

\* the first index of the highest score
ArgMaxFirst(scores) ==
    CHOOSE k \in 1..Len(scores) :
        /\ \A j \in 1..Len(scores) : Geq(scores[k], scores[j])
        /\ \A j \in 1..(k - 1) : Gt(scores[k], scores[j])

Scored(choices, scores, i) ==
    [match |-> choices[i], score |-> scores[i], index |-> i]

BestScored(choices, scores) == Scored(choices, scores, ArgMaxFirst(scores))

\* process.extractOne(query, choices, scorer=scorer): the first choice of the
\* highest score, or None when there is no choice
extractOne(query, choices, scorer) ==
    IF choices = <<>> THEN None
    ELSE Some(BestScored(choices, Scores(query, choices, scorer)))

\* the indices of scores by descending score, equal scores by index
RECURSIVE Ranking(_, _, _)
Ranking(scores, limit, left) ==
    IF limit = 0 \/ left = {} THEN <<>>
    ELSE LET i == CHOOSE k \in left :
                    \A j \in left \ {k} :
                        \/ Gt(scores[k], scores[j])
                        \/ scores[k] = scores[j] /\ k < j
         IN  <<i>> \o Ranking(scores, limit - 1, left \ {i})

Ranked(choices, scores, order) ==
    [n \in 1..Len(order) |-> Scored(choices, scores, order[n])]

TopScored(choices, scores, limit) ==
    Ranked(choices, scores, Ranking(scores, limit, 1..Len(choices)))

\* process.extract(query, choices, scorer=scorer, limit=limit)
extract(query, choices, scorer, limit) ==
    TopScored(choices, Scores(query, choices, scorer), limit)

(***************************************************************************)
(* Python dicts: a sequence of [key, value] in insertion order.            *)
(***************************************************************************)
HasKey(d, k) == \E i \in 1..Len(d) : d[i].key = k

Lookup(d, k) == d[CHOOSE i \in 1..Len(d) : d[i].key = k].value

\* a dict that keeps the first value of a key
DictSetKeepFirst(d, k, v) ==
    IF HasKey(d, k) THEN d ELSE Append(d, [key |-> k, value |-> v])

\* d[k] = v: a new key goes last, a known key keeps its place
DictSet(d, k, v) ==
    IF HasKey(d, k)
    THEN [i \in 1..Len(d) |-> IF d[i].key = k THEN [key |-> k, value |-> v] ELSE d[i]]
    ELSE Append(d, [key |-> k, value |-> v])

Keys(d) == [i \in 1..Len(d) |-> d[i].key]

\* dict(zip(ks, vs))
RECURSIVE DictZip(_, _, _)
DictZip(ks, vs, d) ==
    IF ks = <<>> THEN d
    ELSE DictZip(Tail(ks), Tail(vs), DictSet(d, Head(ks), Head(vs)))

(***************************************************************************)
(* Inputs.                                                                 *)
(***************************************************************************)
\* values of the "Redirect from" column
Urls == {"u1", "u2"}

\* the number 0, the slug of a row of a file whose slug column holds numbers
\* only (pd.read_csv gives such a column an integer type; an empty cell is
\* read as NaN and never as the empty string)
ZeroSlug == <<"0">>

\* rows of product_titles.csv: "Product Title", "Product URL slug"
ProductRows ==
    { [Product_Title |-> <<"A", "b">>,           Product_URL_slug |-> <<"x">>],
      [Product_Title |-> <<"a", "b", "-", "c">>, Product_URL_slug |-> <<"y">>],
      [Product_Title |-> <<"a", "b", " ", "c">>, Product_URL_slug |-> <<"z">>],
      [Product_Title |-> <<"A", "-", "b">>,      Product_URL_slug |-> <<"w", "(", "1">>],
      [Product_Title |-> <<"A", "b">>,           Product_URL_slug |-> ZeroSlug] }

\* texts the translator returns
Translations == { <<"A", "b">>, <<"b", " ", "c">> }

\* what one call of translator.translate_text does
TranslationOutcomes ==
    {[raised |-> TRUE, text |-> <<>>]}
        \cup {[raised |-> FALSE, text |-> t] : t \in Translations}

SeqsUpTo(S, n) == UNION {[1..k -> S] : k \in 0..n}

\* broken_links.csv: the URLs are named in the order they first appear
BrokenFiles ==
    {f \in SeqsUpTo({[Redirect_from |-> u] : u \in Urls}, MaxRows) :
        \A i \in 1..Len(f) :
            f[i].Redirect_from = "u2" => \E j \in 1..(i - 1) : f[j].Redirect_from = "u1"}

\* product_titles.csv: no row twice; a number in the slug column only when
\* the whole column holds numbers
ProductFiles ==
    {f \in SeqsUpTo(ProductRows, MaxCatalog) :
        /\ \A i, j \in 1..Len(f) : f[i] = f[j] => i = j
        /\ \A i, j \in 1..Len(f) :
              f[i].Product_URL_slug = ZeroSlug => f[j].Product_URL_slug = ZeroSlug}

(***************************************************************************)
(* Helpers of the script.                                                  *)
(***************************************************************************)
threshold == 82
partial_threshold == 90

TRANSLATION_FAILED == <<"T", "F">>

startswith(s, prefix) ==
    Len(s) >= Len(prefix) /\ SubSeq(s, 1, Len(prefix)) = prefix

\* what fuzzy_match gives back; raised names the exception that ended the
\* call, consulted lists the scorers the call ran
Return(title, slug, score, method, consulted) ==
    [raised |-> "", title |-> title, slug |-> slug, score |-> score,
     method |-> method, consulted |-> consulted]

Raise(exception, consulted) ==
    [raised |-> exception, title |-> None, slug |-> None, score |-> None,
     method |-> None, consulted |-> consulted]

\* a partial-ratio tier that accepts nothing
PartialTierOff(second, title_map, slug_map) ==
    IF second = None
    THEN Raise("TypeError", <<TSR, PR>>)
    ELSE Return(None, None, None, None, <<TSR, PR>>)

\* lines 19-22: the partial-ratio tier
PartialTier(second, title_map, slug_map) ==
    IF second = None
    THEN Raise("TypeError", <<TSR, PR>>)
    ELSE IF GeqInt(Get(second).score, partial_threshold)
    THEN Return(Some(Lookup(title_map, Get(second).match)),
                Some(Lookup(slug_map, Get(second).match)),
                Some(Get(second).score), Some(PR),
                <<TSR, PR>>)
    ELSE Return(None, None, None, None, <<TSR, PR>>)

\* a token-set tier with the bar of the partial-ratio tier
TokenSetTierAt90(first, second, title_map, slug_map) ==
    IF first = None
    THEN Raise("TypeError", <<TSR>>)
    ELSE IF GeqInt(Get(first).score, partial_threshold)
    THEN Return(Some(Lookup(title_map, Get(first).match)),
                Some(Lookup(slug_map, Get(first).match)),
                Some(Get(first).score), Some(TSR),
                <<TSR>>)
    ELSE PartialTier(second, title_map, slug_map)

\* lines 16-18: the token-set tier; first and second are what extractOne
\* gives with each scorer (second is looked at only past the first tier);
\* unpacking the None that extractOne gives for an empty list raises
TokenSetTier(first, second, title_map, slug_map) ==
    IF first = None
    THEN Raise("TypeError", <<TSR>>)
    ELSE IF GeqInt(Get(first).score, threshold)
    THEN Return(Some(Lookup(title_map, Get(first).match)),
                Some(Lookup(slug_map, Get(first).match)),
                Some(Get(first).score), Some(TSR),
                <<TSR>>)
    ELSE PartialTier(second, title_map, slug_map)

MatchNormalized(guess_norm, titles, title_map, slug_map) ==
    TokenSetTier(extractOne(guess_norm, titles, TSR),
                 extractOne(guess_norm, titles, PR), title_map, slug_map)

\* fuzzy_match(guess, titles, title_map, slug_map)
fuzzy_match(guess, titles, title_map, slug_map) ==
    MatchNormalized(normalize(guess), titles, title_map, slug_map)

\* translate_with_deepl(text, api_key), given what the translator does
translate_with_deepl(outcome) ==
    IF outcome.raised THEN TRANSLATION_FAILED \o <<":">> ELSE outcome.text

\* Python truth value of a slug that may be None: None, the empty string and
\* the number 0 are false
Truthy(slug) == slug # None /\ Get(slug) # <<>> /\ Get(slug) # ZeroSlug

(***************************************************************************)
(* Step 2: the translation loop.                                           *)
(***************************************************************************)
\* a loop that a raising translator ends: the rows before the first failure
TranslateRowsAbortOnRaise(broken_df, outcomes) ==
    [i \in {k \in 1..Len(broken_df) : \A j \in 1..k : ~outcomes[j].raised} |->
        [Redirect_from |-> broken_df[i].Redirect_from,
         translated_guess |-> translate_with_deepl(outcomes[i])]]

\* broken_df with its translated_guess column; outcomes[i] is what the
\* translator does on row i
TranslateRows(broken_df, outcomes) ==
    [i \in 1..Len(broken_df) |->
        [Redirect_from |-> broken_df[i].Redirect_from,
         translated_guess |-> translate_with_deepl(outcomes[i])]]

(***************************************************************************)
(* Step 3: the catalog index and the matching loop.                        *)
(***************************************************************************)
normalized_title(product_df) ==
    [i \in 1..Len(product_df) |-> normalize(product_df[i].Product_Title)]

BuildTitleMap(product_df) ==
    DictZip(normalized_title(product_df),
            [i \in 1..Len(product_df) |-> product_df[i].Product_Title], <<>>)

BuildSlugMap(product_df) ==
    DictZip(normalized_title(product_df),
            [i \in 1..Len(product_df) |-> product_df[i].Product_URL_slug], <<>>)

\* a routing that forgets the rows without a match
RouteDropsUnmatched(row, r, acc) ==
    IF r.raised # "" THEN [acc EXCEPT !.raised = r.raised]
    ELSE IF Truthy(r.slug)
    THEN [acc EXCEPT !.matches = Append(@,
                        [Redirect_from |-> row.Redirect_from,
                         Redirect_to |-> Get(r.slug),
                         Matched_title |-> Get(r.title),
                         Match_score |-> Get(r.score),
                         Match_method |-> Get(r.method)])]
    ELSE acc

\* lines 122-131: where the row goes, given what fuzzy_match gave
Route(row, r, acc) ==
    IF r.raised # "" THEN [acc EXCEPT !.raised = r.raised]
    ELSE IF Truthy(r.slug)
    THEN [acc EXCEPT !.matches = Append(@,
                        [Redirect_from |-> row.Redirect_from,
                         Redirect_to |-> Get(r.slug),
                         Matched_title |-> Get(r.title),
                         Match_score |-> Get(r.score),
                         Match_method |-> Get(r.method)])]
    ELSE [acc EXCEPT !.unmatched = Append(@, row)]

Logged(guess, r, acc) ==
    [acc EXCEPT !.calls = Append(@, [guess |-> guess, titles |-> acc.titles,
                                     title_map |-> acc.title_map,
                                     slug_map |-> acc.slug_map, ret |-> r])]

\* a loop body without the failure-marker test
MatchRowNoFailureTest(row, acc) ==
    Route(row,
          fuzzy_match(row.translated_guess, acc.titles, acc.title_map, acc.slug_map),
          Logged(row.translated_guess,
                 fuzzy_match(row.translated_guess, acc.titles, acc.title_map,
                             acc.slug_map),
                 acc))

\* lines 116-131: one pass of the loop body
MatchRow(row, acc) ==
    IF startswith(row.translated_guess, TRANSLATION_FAILED)
    THEN [acc EXCEPT !.unmatched = Append(@, row)]
    ELSE Route(row,
               fuzzy_match(row.translated_guess, acc.titles, acc.title_map,
                           acc.slug_map),
               Logged(row.translated_guess,
                      fuzzy_match(row.translated_guess, acc.titles, acc.title_map,
                                  acc.slug_map),
                      acc))

\* the loop over the translated rows; acc holds the index, matches,
\* unmatched, the fuzzy_match calls made so far and the exception that ended
\* the loop
RECURSIVE MatchLoop(_, _)
MatchLoop(rows, acc) ==
    IF rows = <<>> \/ acc.raised # "" THEN acc
    ELSE MatchLoop(Tail(rows), MatchRow(Head(rows), acc))

MatchWithIndex(translated, title_map, slug_map) ==
    MatchLoop(translated,
              [titles |-> Keys(title_map), title_map |-> title_map,
               slug_map |-> slug_map, matches |-> <<>>, unmatched |-> <<>>,
               calls |-> <<>>, raised |-> ""])

\* lines 106-134
MatchTranslations(translated, product_df) ==
    MatchWithIndex(translated, BuildTitleMap(product_df), BuildSlugMap(product_df))

(***************************************************************************)
(* Step 4: the review queue.                                               *)
(***************************************************************************)
ARROW == "->"              \* the character U+2192
SKIP == <<"Skip this one">>

\* f"{title} -> {slug} (score: {score})"; the score text is one symbol
FormatOption(title, slug, score) ==
    title \o <<" ", ARROW, " ">> \o slug
          \o <<" ", "(", "score: ", ToString(score), ")">>

AfterLast(s, c) ==
    LET at == {i \in 1..Len(s) : s[i] = c}
    IN  IF at = {} THEN s
        ELSE SubSeq(s, (CHOOSE i \in at : \A j \in at : j <= i) + 1, Len(s))

BeforeFirst(s, c) ==
    LET at == {i \in 1..Len(s) : s[i] = c}
    IN  IF at = {} THEN s
        ELSE SubSeq(s, 1, (CHOOSE i \in at : \A j \in at : i <= j) - 1)

\* choice.split("->")[-1].split("(")[0].strip()
ParseSlug(label) == strip(BeforeFirst(AfterLast(label, ARROW), "("))

\* whether the run shows a current item
ReviewOpen(ss) ==
    ss.matched # None /\ ss.manual_index < Len(Get(ss.matched).unmatched)

CurrentRow(ss) == Get(ss.matched).unmatched[ss.manual_index + 1]

\* the radio's options for the current item: the top 3 by token-set score,
\* then Skip; no radio when the queue is exhausted or nothing is matched
Labels(top_matches, title_map, slug_map) ==
    [i \in 1..Len(top_matches) |->
        FormatOption(Lookup(title_map, top_matches[i].match),
                     Lookup(slug_map, top_matches[i].match),
                     top_matches[i].score)]

Options(ss) ==
    IF ~ReviewOpen(ss) THEN <<>>
    ELSE Labels(extract(normalize(CurrentRow(ss).translated_guess),
                        Get(ss.titles), TSR, 3),
                Get(ss.title_map), Get(ss.slug_map))
         \o <<SKIP>>

\* a "Save & Next" that stays on the item when it is skipped
SaveAndNextSkipStays(ss, label) ==
    IF label = SKIP THEN ss
    ELSE [ss EXCEPT
            !.manual_results =
                Append(@, [Redirect_from |-> CurrentRow(ss).Redirect_from,
                           Redirect_to |-> ParseSlug(label)]),
            !.manual_index = @ + 1]

\* "Save & Next" with the radio on label
SaveAndNext(ss, label) ==
    [ss EXCEPT
        !.manual_results =
            IF label # SKIP
            THEN Append(@, [Redirect_from |-> CurrentRow(ss).Redirect_from,
                            Redirect_to |-> ParseSlug(label)])
            ELSE @,
        !.manual_index = @ + 1]

(***************************************************************************)
(* Step 5: the export.                                                     *)
(***************************************************************************)
\* a drop_duplicates that keeps the last row of each source
RECURSIVE drop_duplicates_keep_last(_, _)
drop_duplicates_keep_last(rows, seen) ==
    IF rows = <<>> THEN <<>>
    ELSE IF \E n \in 2..Len(rows) : rows[n].Redirect_from = Head(rows).Redirect_from
         THEN drop_duplicates_keep_last(Tail(rows), seen)
         ELSE <<Head(rows)>> \o drop_duplicates_keep_last(Tail(rows), seen)

\* drop_duplicates(subset=["Redirect from"]): the first row of each source
RECURSIVE drop_duplicates(_, _)
drop_duplicates(rows, seen) ==
    IF rows = <<>> THEN <<>>
    ELSE IF Head(rows).Redirect_from \in seen
         THEN drop_duplicates(Tail(rows), seen)
         ELSE <<Head(rows)>>
              \o drop_duplicates(Tail(rows), seen \cup {Head(rows).Redirect_from})

\* pd.concat([final[["Redirect from", "Redirect to"]], manual])
concat(final, manual) ==
    [i \in 1..Len(final) |->
        [Redirect_from |-> final[i].Redirect_from,
         Redirect_to |-> final[i].Redirect_to]] \o manual

Merge(final, manual) == drop_duplicates(concat(final, manual), {})

(***************************************************************************)
(* One run of the script.                                                  *)
(***************************************************************************)
\* st.session_state after the defaults loop
DefaultSessionState ==
    [match_complete |-> FALSE,
     translated |-> None,
     matched |-> None,
     manual_results |-> <<>>,
     manual_index |-> 0,
     title_map |-> None,
     slug_map |-> None,
     titles |-> None,
     final_redirect_csv |-> None]

\* Step 1: the files and the key are all present
Loaded(bf, pf, key) == bf # None /\ pf # None /\ key

\* Step 2 on a click of "Translate Now"
Step2(ss, bf, pf, key, translate_now, outcomes) ==
    IF Loaded(bf, pf, key) /\ translate_now
    THEN [ss EXCEPT !.translated = Some(TranslateRows(Get(bf), outcomes))]
    ELSE ss

\* a Step 3 that runs whenever a translation is stored
Step3DueEveryRun(ss) == ss.translated # None

\* Step 3 runs when a translation is stored and no matching has completed
Step3Due(ss) == ss.translated # None /\ ~ss.match_complete

\* lines 136-146: a loop that ended in an exception stores nothing
Step3Store(ss, m) ==
    IF m.raised # ""
    THEN [ss |-> ss, error |-> m.raised, calls |-> Some(m.calls)]
    ELSE [ss |-> [ss EXCEPT
                     !.matched = Some([final |-> m.matches,
                                       unmatched |-> m.unmatched]),
                     !.match_complete = TRUE,
                     !.title_map = Some(m.title_map),
                     !.slug_map = Some(m.slug_map),
                     !.titles = Some(m.titles)],
          error |-> "", calls |-> Some(m.calls)]

\* Step 3: product_df is bound only in a run where Step 1 is loaded
Step3(ss, bf, pf, key) ==
    IF ~Step3Due(ss) THEN [ss |-> ss, error |-> "", calls |-> None]
    ELSE IF ~Loaded(bf, pf, key)
    THEN [ss |-> ss, error |-> "NameError", calls |-> None]
    ELSE Step3Store(ss, MatchTranslations(Get(ss.translated), Get(pf)))

\* Step 5: selecting the two columns of a table built from no match raises
\* KeyError
Step5(ss) ==
    IF ss.matched = None \/ ss.final_redirect_csv # None
    THEN [ss |-> ss, error |-> ""]
    ELSE IF Get(ss.matched).final = <<>>
    THEN [ss |-> ss, error |-> "KeyError"]
    ELSE [ss |-> [ss EXCEPT !.final_redirect_csv =
                      Some(Merge(Get(ss.matched).final, ss.manual_results))],
          error |-> ""]

Exported(s3, s5) ==
    [ss |-> s5.ss, error |-> s5.error, calls |-> s3.calls, rerun |-> FALSE]

\* Steps 4 and 5 after Step 3 gave s3.  save_next: "Save & Next" was clicked
\* with the radio on label; the run then ends in st.rerun() before Step 5.
Steps4And5(s3, save_next, label) ==
    IF s3.error # ""
    THEN [ss |-> s3.ss, error |-> s3.error, calls |-> s3.calls, rerun |-> FALSE]
    ELSE IF ReviewOpen(s3.ss) /\ save_next
    THEN [ss |-> SaveAndNext(s3.ss, label), error |-> "", calls |-> s3.calls,
          rerun |-> TRUE]
    ELSE Exported(s3, Step5(s3.ss))

\* the script from top to bottom
RunScript(ss, bf, pf, key, translate_now, outcomes, save_next, label) ==
    Steps4And5(Step3(Step2(ss, bf, pf, key, translate_now, outcomes), bf, pf, key),
               save_next, label)

\* a run without a click
Render(ss, bf, pf, key) == RunScript(ss, bf, pf, key, FALSE, <<>>, FALSE, SKIP)

(***************************************************************************)
(* State.                                                                  *)
(***************************************************************************)
VARIABLES
    session_state,   \* st.session_state
    broken_file,     \* the broken_links.csv uploader: None or Some(rows)
    product_file,    \* the product_titles.csv uploader: None or Some(rows)
    api_key,         \* whether the key input holds a key
    error,           \* the exception that ended the last run, "" for none
    fuzzy_calls,     \* the fuzzy_match calls of the last matching loop
    submissions,     \* the "Save & Next" clicks so far: [item, label]
    broken_uploads,  \* changes of the first uploader so far
    product_uploads, \* changes of the second uploader so far
    translations,    \* "Translate Now" clicks so far
    translator_log,  \* what the translator did on each row of the last click
    probe            \* a text handed to normalize on its own: [input, value, calls]

vars == <<session_state, broken_file, product_file, api_key, error,
          fuzzy_calls, submissions, broken_uploads, product_uploads,
          translations, translator_log, probe>>

\* a text before normalize is applied to it
Probe(text) == [input |-> text, value |-> text, calls |-> 0]

\* a session before its first event
Fresh ==
    /\ session_state = DefaultSessionState
    /\ broken_file = None
    /\ product_file = None
    /\ api_key = FALSE
    /\ error = ""
    /\ fuzzy_calls = <<>>
    /\ submissions = <<>>
    /\ broken_uploads = 0
    /\ product_uploads = 0
    /\ translations = 0
    /\ translator_log = <<>>

Init ==
    /\ Fresh
    /\ probe = Probe(<<>>)

\* what every run leaves behind
Finish(r) ==
    /\ session_state' = r.ss
    /\ error' = r.error
    /\ fuzzy_calls' = IF r.calls = None THEN fuzzy_calls ELSE Get(r.calls)

\* a file is put into, replaced in or taken out of the first uploader
UploadBroken(f) ==
    /\ broken_uploads < MaxBrokenUploads
    /\ f # broken_file
    /\ broken_file' = f
    /\ broken_uploads' = broken_uploads + 1
    /\ Finish(Render(session_state, f, product_file, api_key))
    /\ UNCHANGED <<product_file, api_key, submissions, product_uploads,
                   translations, translator_log, probe>>

UploadProduct(f) ==
    /\ product_uploads < MaxProductUploads
    /\ f # product_file
    /\ product_file' = f
    /\ product_uploads' = product_uploads + 1
    /\ Finish(Render(session_state, broken_file, f, api_key))
    /\ UNCHANGED <<broken_file, api_key, submissions, broken_uploads,
                   translations, translator_log, probe>>

\* a key is typed into the empty key field
EnterApiKey ==
    /\ ~api_key
    /\ api_key' = TRUE
    /\ Finish(Render(session_state, broken_file, product_file, TRUE))
    /\ UNCHANGED <<broken_file, product_file, submissions, broken_uploads,
                   product_uploads, translations, translator_log, probe>>

\* the translator's outcome on each row is not the program's to choose
ClickTranslate ==
    /\ translations < MaxTranslate
    /\ Loaded(broken_file, product_file, api_key)
    /\ translations' = translations + 1
    /\ \E outcomes \in [1..Len(Get(broken_file)) -> TranslationOutcomes] :
          /\ Finish(RunScript(session_state, broken_file, product_file, api_key,
                              TRUE, outcomes, FALSE, SKIP))
          /\ translator_log' = outcomes
    /\ UNCHANGED <<broken_file, product_file, api_key, submissions,
                   broken_uploads, product_uploads, probe>>

\* a run no click caused: the radio moved, the page was re-rendered
Rerender ==
    /\ Finish(Render(session_state, broken_file, product_file, api_key))
    /\ UNCHANGED <<broken_file, product_file, api_key, submissions,
                   broken_uploads, product_uploads, translations,
                   translator_log, probe>>

\* "Save & Next" with the radio on label; the click run ends in st.rerun(),
\* which runs the script again
ClickSave(label) ==
    /\ ReviewOpen(session_state)
    /\ Finish(Render(RunScript(session_state, broken_file, product_file, api_key,
                               FALSE, <<>>, TRUE, label).ss,
                     broken_file, product_file, api_key))
    /\ submissions' = Append(submissions,
                             [item |-> session_state.manual_index + 1,
                              label |-> label])
    /\ UNCHANGED <<broken_file, product_file, api_key, broken_uploads,
                   product_uploads, translations, translator_log, probe>>

Next ==
    \/ \E f \in {None} \cup {Some(b) : b \in BrokenFiles} : UploadBroken(f)
    \/ \E f \in {None} \cup {Some(p) : p \in ProductFiles} : UploadProduct(f)
    \/ EnterApiKey
    \/ ClickTranslate
    \/ Rerender
    \/ \E i \in 1..Len(Options(session_state)) :
          ClickSave(Options(session_state)[i])

Spec == Init /\ [][Next]_vars

(***************************************************************************)
(* normalize on its own: a text is drawn and normalize is applied to it,   *)
(* and to what it gave, while the session stays as it started.             *)
(***************************************************************************)
NormalizeChars == {"a", "B", "1", " ", "\t", "-"}

NormalizeInputs == {NotAString} \cup SeqsUpTo(NormalizeChars, MaxText)

NormalizeInit ==
    /\ Fresh
    /\ probe \in {Probe(text) : text \in NormalizeInputs}

Normalize ==
    /\ probe.calls < MaxNormalize
    /\ probe' = [probe EXCEPT !.value = normalize(@), !.calls = @ + 1]
    /\ UNCHANGED <<session_state, broken_file, product_file, api_key, error,
                   fuzzy_calls, submissions, broken_uploads, product_uploads,
                   translations, translator_log>>

NormalizeNext == Normalize

NormalizeSpec == NormalizeInit /\ [][NormalizeNext]_vars

(***************************************************************************)
(* Properties.                                                             *)
(***************************************************************************)
Matched == Get(session_state.matched)

HasMatched == session_state.matched # None

\* the guess of a logged call scores s against key i of the call's titles
ScoreOf(call, i, scorer) == Score(scorer, normalize(call.guess), call.titles[i])

\* key i is the first key of the highest score
IsFirstBest(call, i, scorer) ==
    /\ \A j \in 1..Len(call.titles) :
          Geq(ScoreOf(call, i, scorer), ScoreOf(call, j, scorer))
    /\ \A j \in 1..(i - 1) :
          ~Geq(ScoreOf(call, j, scorer), ScoreOf(call, i, scorer))

\* the call gave back the entry of key i under method
GaveEntry(call, i, method) ==
    /\ call.ret.raised = ""
    /\ call.ret.title = Some(Lookup(call.title_map, call.titles[i]))
    /\ call.ret.slug = Some(Lookup(call.slug_map, call.titles[i]))
    /\ call.ret.method = Some(method)

\* C1: every manual decision whose source URL has no automatic match is a
\* row of the exported table.
C1_ManualDecisionsExported ==
    \A i \in 1..Len(session_state.manual_results) :
        (\A j \in 1..Len(Matched.final) :
            Matched.final[j].Redirect_from
                # session_state.manual_results[i].Redirect_from)
        => /\ session_state.final_redirect_csv # None
           /\ \E n \in 1..Len(Get(session_state.final_redirect_csv)) :
                 Get(session_state.final_redirect_csv)[n]
                     = session_state.manual_results[i]

\* C2: the merge of the automatic matches and the manual decisions has one
\* row per distinct source URL, in the order automatic then manual, and a
\* source URL with an automatic match keeps the target of its first
\* automatic match whatever the manual decisions say; the stored export has
\* one row per source URL.
OneRowPerSource(rows, sources) ==
    /\ \A u \in sources : \E n \in 1..Len(rows) : rows[n].Redirect_from = u
    /\ \A n, k \in 1..Len(rows) :
          rows[n].Redirect_from = rows[k].Redirect_from => n = k
    /\ \A n \in 1..Len(rows) : rows[n].Redirect_from \in sources

C2_MergeKeepsFirst ==
    HasMatched =>
        LET final == Matched.final
            manual == session_state.manual_results
            merged == Merge(final, manual)
        IN  /\ OneRowPerSource(merged,
                    {final[j].Redirect_from : j \in 1..Len(final)}
                        \cup {manual[i].Redirect_from : i \in 1..Len(manual)})
            /\ \A j \in 1..Len(final) :
                  (\A k \in 1..(j - 1) :
                      final[k].Redirect_from # final[j].Redirect_from)
                  => \E n \in 1..Len(merged) :
                        /\ merged[n].Redirect_from = final[j].Redirect_from
                        /\ merged[n].Redirect_to = final[j].Redirect_to
            /\ session_state.final_redirect_csv # None
               => \A n, k \in 1..Len(Get(session_state.final_redirect_csv)) :
                     Get(session_state.final_redirect_csv)[n].Redirect_from
                         = Get(session_state.final_redirect_csv)[k].Redirect_from
                     => n = k

\* a source URL has an automatic match to one target and a manual decision
\* to another
C2_Witness ==
    /\ HasMatched
    /\ \E j \in 1..Len(Matched.final) :
          \E i \in 1..Len(session_state.manual_results) :
              /\ session_state.manual_results[i].Redirect_from
                    = Matched.final[j].Redirect_from
              /\ session_state.manual_results[i].Redirect_to
                    # Matched.final[j].Redirect_to

\* C3: a call on a non-empty catalog whose best token-set score is >= 82
\* gives back the title and slug of the first key of that score, tagged
\* token_set_ratio, and runs no other scorer.
C3_TokenSetTier ==
    \A c \in 1..Len(fuzzy_calls) :
        \A i \in 1..Len(fuzzy_calls[c].titles) :
            (/\ IsFirstBest(fuzzy_calls[c], i, TSR)
             /\ GeqInt(ScoreOf(fuzzy_calls[c], i, TSR), 82))
            => /\ GaveEntry(fuzzy_calls[c], i, TSR)
               /\ fuzzy_calls[c].ret.consulted = <<TSR>>

\* a call decided among two keys of the same best token-set score
C3_Witness ==
    \E c \in 1..Len(fuzzy_calls) :
        \E i, j \in 1..Len(fuzzy_calls[c].titles) :
            /\ i < j
            /\ IsFirstBest(fuzzy_calls[c], i, TSR)
            /\ GeqInt(ScoreOf(fuzzy_calls[c], i, TSR), 82)
            /\ ScoreOf(fuzzy_calls[c], j, TSR) = ScoreOf(fuzzy_calls[c], i, TSR)
            /\ GaveEntry(fuzzy_calls[c], i, TSR)

\* C4: a call whose best token-set score is < 82 and whose best
\* partial-ratio score is >= 90 gives back the entry of the first key of the
\* best partial-ratio score, tagged partial_ratio.
C4_PartialTier ==
    \A c \in 1..Len(fuzzy_calls) :
        \A i \in 1..Len(fuzzy_calls[c].titles) :
            (/\ \A j \in 1..Len(fuzzy_calls[c].titles) :
                   ~GeqInt(ScoreOf(fuzzy_calls[c], j, TSR), 82)
             /\ IsFirstBest(fuzzy_calls[c], i, PR)
             /\ GeqInt(ScoreOf(fuzzy_calls[c], i, PR), 90))
            => GaveEntry(fuzzy_calls[c], i, PR)

\* a call decided by the partial-ratio tier, its token-set scores being
\* above 0 and below 82
C4_Witness ==
    \E c \in 1..Len(fuzzy_calls) :
        \E i \in 1..Len(fuzzy_calls[c].titles) :
            /\ \A j \in 1..Len(fuzzy_calls[c].titles) :
                  ~GeqInt(ScoreOf(fuzzy_calls[c], j, TSR), 82)
            /\ ScoreOf(fuzzy_calls[c], i, TSR) # Zero
            /\ IsFirstBest(fuzzy_calls[c], i, PR)
            /\ GeqInt(ScoreOf(fuzzy_calls[c], i, PR), 90)
            /\ GaveEntry(fuzzy_calls[c], i, PR)

\* C5: a call whose guess scores < 82 on token-set and < 90 on partial-ratio
\* against every key gives back no match and its row is in unmatched, and
\* every matched entry has a score at or above the threshold of its method.
BelowBoth(call) ==
    \A j \in 1..Len(call.titles) :
        /\ ~GeqInt(ScoreOf(call, j, TSR), 82)
        /\ ~GeqInt(ScoreOf(call, j, PR), 90)

C5_BelowThresholdUnmatched ==
    /\ \A c \in 1..Len(fuzzy_calls) :
          BelowBoth(fuzzy_calls[c])
          => /\ fuzzy_calls[c].ret.raised = ""
             /\ fuzzy_calls[c].ret.slug = None
             /\ HasMatched
             /\ \E n \in 1..Len(Matched.unmatched) :
                   Matched.unmatched[n].translated_guess = fuzzy_calls[c].guess
    /\ HasMatched
       => \A n \in 1..Len(Matched.final) :
             \/ /\ Matched.final[n].Match_method = TSR
                /\ GeqInt(Matched.final[n].Match_score, 82)
             \/ /\ Matched.final[n].Match_method = PR
                /\ GeqInt(Matched.final[n].Match_score, 90)

\* the rows of rows that f tags with tag, in order, from row i on
RECURSIVE PickFrom(_, _, _, _)
PickFrom(rows, f, tag, i) ==
    IF i > Len(rows) THEN <<>>
    ELSE (IF f[i] = tag THEN <<rows[i]>> ELSE <<>>) \o PickFrom(rows, f, tag, i + 1)

Sources(rows) == [n \in 1..Len(rows) |-> rows[n].Redirect_from]

\* final and unmatched split rows: every row is in exactly one of them, each
\* in the order of rows
IsPartition(rows, final, unmatched) ==
    /\ Len(final) + Len(unmatched) = Len(rows)
    /\ \E f \in [1..Len(rows) -> {"matched", "unmatched"}] :
          /\ unmatched = PickFrom(rows, f, "unmatched", 1)
          /\ Sources(final) = Sources(PickFrom(rows, f, "matched", 1))

\* C6: a run that completes the matching loop leaves every translated row in
\* exactly one of matched / unmatched, each in input order.
C6_Partition ==
    [][(~session_state.match_complete /\ session_state'.match_complete)
       => IsPartition(Get(session_state'.translated),
                      Get(session_state'.matched).final,
                      Get(session_state'.matched).unmatched)]_vars

\* a two-row batch split into one matched and one unmatched row
C6_Witness ==
    /\ HasMatched
    /\ translations = 1
    /\ Len(Get(session_state.translated)) = 2
    /\ Len(Matched.final) = 1
    /\ Len(Matched.unmatched) = 1

IsFailed(row) == startswith(row.translated_guess, TRANSLATION_FAILED)

CountFailed(rows) == Cardinality({n \in 1..Len(rows) : IsFailed(rows[n])})

NonSkip(subs) == SelectSeq(subs, LAMBDA sub : sub.label # SKIP)

\* C8: k submissions leave manual_index at k and manual_results as long as
\* the submissions that were not Skip, each decision with the source URL of
\* the item it was submitted for.
C8_QueueAdvances ==
    /\ session_state.manual_index = Len(submissions)
    /\ \A k \in 1..Len(submissions) : submissions[k].item = k
    /\ Len(session_state.manual_results) = Len(NonSkip(submissions))
    /\ \A n \in 1..Len(session_state.manual_results) :
          session_state.manual_results[n].Redirect_from
              = Matched.unmatched[NonSkip(submissions)[n].item].Redirect_from

\* two unmatched rows of different sources: the second one decided, the
\* first one skipped, the queue exhausted
C8_Witness ==
    /\ HasMatched
    /\ Len(Matched.unmatched) = 2
    /\ Matched.unmatched[1].Redirect_from # Matched.unmatched[2].Redirect_from
    /\ Len(submissions) = 2
    /\ submissions[1].label = SKIP
    /\ submissions[2].label # SKIP
    /\ session_state.manual_index = 2
    /\ Len(session_state.manual_results) = 1

\* C9: a run that enters the matching stage with an empty catalog or with no
\* candidate row completes it: matched / unmatched are stored and the
\* matcher raised nothing.
C9_DegenerateInputsComplete ==
    [][(/\ ~session_state.match_complete
        /\ session_state'.translated # None
        /\ Loaded(broken_file', product_file', api_key')
        /\ \/ Get(product_file') = <<>>
           \/ Get(session_state'.translated) = <<>>)
       => /\ session_state'.matched # None
          /\ error' # "TypeError"]_vars

\* C10: once a batch is matched, a run that stores no new translation leaves
\* the matching results alone, and a run that stores the translation of
\* another uploaded batch stores the matched / unmatched sets of that batch.
C10_RematchOnNewBatch ==
    [][session_state.match_complete
       => /\ session_state'.translated = session_state.translated
             => /\ session_state'.matched = session_state.matched
                /\ fuzzy_calls' = fuzzy_calls
          /\ Sources(Get(session_state'.translated))
                # Sources(Get(session_state.translated))
             => IsPartition(Get(session_state'.translated),
                            Get(session_state'.matched).final,
                            Get(session_state'.matched).unmatched)]_vars

\* s is a string of lowercase ASCII letters, ASCII digits and single interior
\* spaces
IsNormalText(s) ==
    /\ s # NotAString
    /\ \A i \in 1..Len(s) : s[i] \in LowerCase \cup Digits \cup {" "}
    /\ s # <<>> => s[1] # " " /\ s[Len(s)] # " "
    /\ \A i \in 1..(Len(s) - 1) : ~(s[i] = " " /\ s[i + 1] = " ")

\* C11: normalize gives, for every input, string or not, a string of
\* lowercase ASCII letters, ASCII digits and single interior spaces without
\* a leading or trailing space, and applying it to its own result gives that
\* result again.
C11_NormalizeIdempotent ==
    probe.calls >= 1
    => /\ IsNormalText(probe.value)
       /\ probe.value = normalize(probe.input)
       /\ normalize(probe.value) = probe.value

\* normalize was applied twice to a text with an uppercase letter, a dropped
\* character and a run of whitespace at its end, or to a text with a run of
\* whitespace inside
C11_Witness ==
    \/ /\ probe.calls = 2
       /\ probe.input = <<"B", "\t", " ", "-">>
       /\ probe.value = <<"b">>
    \/ /\ probe.calls = 2
       /\ probe.input = <<"a", " ", "\t", "1">>
       /\ probe.value = <<"a", " ", "1">>

\* the candidates shown for item k of the review queue
Candidates(k) ==
    extract(normalize(Matched.unmatched[k].translated_guess),
            Get(session_state.titles), TSR, 3)

\* C12: the target of every manual decision is the catalog slug of the
\* candidate whose option was submitted.
C12_SubmittedSlugIsCandidateSlug ==
    \A n \in 1..Len(session_state.manual_results) :
        \A i \in 1..Len(Candidates(NonSkip(submissions)[n].item)) :
            Labels(Candidates(NonSkip(submissions)[n].item),
                   Get(session_state.title_map),
                   Get(session_state.slug_map))[i]
                = NonSkip(submissions)[n].label
            => session_state.manual_results[n].Redirect_to
                  = Lookup(Get(session_state.slug_map),
                           Candidates(NonSkip(submissions)[n].item)[i].match)

\* the rows whose translation did not fail, in order
NonFailed(rows) == SelectSeq(rows, LAMBDA row : ~IsFailed(row))

\* where the matcher's answers send the rows: call k is the call for row k
Verdicts(calls) ==
    [k \in 1..Len(calls) |->
        IF calls[k].ret.title # None THEN "matched" ELSE "unmatched"]

\* C13: a run that completes the matching loop has put a non-failed row into
\* matched exactly when fuzzy_match gave a result for its guess and into
\* unmatched exactly when it gave none.
C13_RoutedByMatcherResult ==
    [][(~session_state.match_complete /\ session_state'.match_complete)
       => /\ Sources(Get(session_state'.matched).final)
                = Sources(PickFrom(NonFailed(Get(session_state'.translated)),
                                   Verdicts(fuzzy_calls'), "matched", 1))
          /\ NonFailed(Get(session_state'.matched).unmatched)
                = PickFrom(NonFailed(Get(session_state'.translated)),
                           Verdicts(fuzzy_calls'), "unmatched", 1)]_vars

\* the number of rows queued for review; none before the matching
QueueLength(ss) == IF ss.matched = None THEN 0 ELSE Len(Get(ss.matched).unmatched)

\* C14: manual_index stays between 0 and the number of unmatched rows, never
\* decreases, moves only by a submission and then by one, and once it is the
\* number of unmatched rows there is no further submission and manual_index
\* and manual_results stay as they are.
C14_QueueForwardOnly ==
    [][/\ 0 <= session_state'.manual_index
       /\ session_state'.manual_index <= QueueLength(session_state')
       /\ session_state'.manual_index >= session_state.manual_index
       /\ session_state'.manual_index # session_state.manual_index
          => /\ Len(submissions') = Len(submissions) + 1
             /\ session_state'.manual_index = session_state.manual_index + 1
       /\ session_state.manual_index = QueueLength(session_state)
          => /\ submissions' = submissions
             /\ session_state'.manual_index = session_state.manual_index
             /\ session_state'.manual_results = session_state.manual_results]_vars

\* the queue of two rows is exhausted by two submissions, and a batch of
\* another length was uploaded and translated after the matching
C14_Witness ==
    /\ HasMatched
    /\ Len(Matched.unmatched) = 2
    /\ session_state.manual_index = 2
    /\ Len(submissions) = 2
    /\ translations = 2
    /\ Len(Get(session_state.translated)) # 2

\* a file was put into an uploader in this step
NewUpload ==
    \/ broken_file' # broken_file /\ broken_file' # None
    \/ product_file' # product_file /\ product_file' # None

\* what session_state holds stays held: a stored value is not lost, the
\* review position does not go back, the decisions are only appended to
Persists(old, new) ==
    /\ old.match_complete => new.match_complete
    /\ old.translated # None => new.translated # None
    /\ old.matched # None => new.matched = old.matched
    /\ old.title_map # None => new.title_map = old.title_map
    /\ old.slug_map # None => new.slug_map = old.slug_map
    /\ old.titles # None => new.titles = old.titles
    /\ old.final_redirect_csv # None
       => new.final_redirect_csv = old.final_redirect_csv
    /\ new.manual_index >= old.manual_index
    /\ Len(new.manual_results) >= Len(old.manual_results)
    /\ SubSeq(new.manual_results, 1, Len(old.manual_results)) = old.manual_results

\* C15: a step that starts a new upload leaves session_state at its defaults,
\* and every other step leaves what session_state holds in place.
C15_ResetOnNewUpload ==
    [][IF NewUpload
       THEN session_state' = DefaultSessionState
       ELSE Persists(session_state, session_state')]_vars

\* C16: a click on "Translate Now" stores one translated row per row of the
\* uploaded file, in the file's order, whatever the translator did on each
\* row: the value is the failure marker for exactly the rows on which the
\* translator raised, and the translator's text for the others.
C16_TranslationLoopCompletes ==
    [][translations' # translations
       => /\ session_state'.translated # None
          /\ Len(Get(session_state'.translated)) = Len(Get(broken_file'))
          /\ Len(translator_log') = Len(Get(broken_file'))
          /\ \A i \in 1..Len(Get(broken_file')) :
                /\ Get(session_state'.translated)[i].Redirect_from
                      = Get(broken_file')[i].Redirect_from
                /\ IsFailed(Get(session_state'.translated)[i])
                      <=> translator_log'[i].raised
                /\ ~translator_log'[i].raised
                   => Get(session_state'.translated)[i].translated_guess
                         = translator_log'[i].text]_vars

\* the translator raised on the first of two rows and translated the second
C16_Witness ==
    /\ session_state.translated # None
    /\ Len(translator_log) = 2
    /\ translator_log[1].raised
    /\ ~translator_log[2].raised
    /\ Len(Get(session_state.translated)) = 2
    /\ IsFailed(Get(session_state.translated)[1])
    /\ Get(session_state.translated)[2].translated_guess = translator_log[2].text

\* the three parts of the index have the same keys, each key once
SameKeys(titles, title_map, slug_map) ==
    /\ Keys(title_map) = titles
    /\ Keys(slug_map) = titles
    /\ \A i, j \in 1..Len(titles) : titles[i] = titles[j] => i = j

\* the index of product_df: a key for every normalized title, resolving to
\* the title and the slug of the last row of that normalized title
LastRowWins(product_df, titles, title_map, slug_map) ==
    /\ {titles[i] : i \in 1..Len(titles)}
          = {normalize(product_df[i].Product_Title) : i \in 1..Len(product_df)}
    /\ \A i \in 1..Len(product_df) :
          (\A j \in (i + 1)..Len(product_df) :
              normalize(product_df[j].Product_Title)
                  # normalize(product_df[i].Product_Title))
          => /\ Lookup(title_map, normalize(product_df[i].Product_Title))
                   = product_df[i].Product_Title
             /\ Lookup(slug_map, normalize(product_df[i].Product_Title))
                   = product_df[i].Product_URL_slug

\* C17: the stored index has one key per normalized title, the same keys in
\* title_map, slug_map and titles; a run that builds it from the uploaded
\* catalog resolves each key to the title and slug of the last row of that
\* normalized title; and every result fuzzy_match gives is the title and the
\* slug that one key resolves to.
C17_IndexLastWriteWins ==
    [][/\ session_state'.titles # None
          => SameKeys(Get(session_state'.titles), Get(session_state'.title_map),
                      Get(session_state'.slug_map))
       /\ (~session_state.match_complete /\ session_state'.match_complete)
          => /\ LastRowWins(Get(product_file'), Get(session_state'.titles),
                            Get(session_state'.title_map),
                            Get(session_state'.slug_map))
             /\ \A c \in 1..Len(fuzzy_calls') :
                   fuzzy_calls'[c].ret.title # None
                   => \E i \in 1..Len(fuzzy_calls'[c].titles) :
                         /\ fuzzy_calls'[c].ret.title
                               = Some(Lookup(Get(session_state'.title_map),
                                             fuzzy_calls'[c].titles[i]))
                         /\ fuzzy_calls'[c].ret.slug
                               = Some(Lookup(Get(session_state'.slug_map),
                                             fuzzy_calls'[c].titles[i]))]_vars

\* a catalog of two rows of the same normalized title is indexed under one
\* key, which resolves to the second row, and the matcher returned that row
C17_Witness ==
    /\ HasMatched
    /\ product_file # None
    /\ Len(Get(product_file)) = 2
    /\ normalize(Get(product_file)[1].Product_Title)
          = normalize(Get(product_file)[2].Product_Title)
    /\ Len(Get(session_state.titles)) = 1
    /\ Lookup(Get(session_state.title_map), Get(session_state.titles)[1])
          = Get(product_file)[2].Product_Title
    /\ Lookup(Get(session_state.slug_map), Get(session_state.titles)[1])
          = Get(product_file)[2].Product_URL_slug
    /\ \E n \in 1..Len(Matched.final) :
          Matched.final[n].Redirect_to = Get(product_file)[2].Product_URL_slug

\* C18: the run that sets matched also sets final_redirect_csv, to the merge
\* of the automatic matches with the still empty manual decisions, and a
\* final_redirect_csv that is set is never changed by a later step.
C18_ExportFrozen ==
    [][/\ (session_state.matched = None /\ session_state'.matched # None)
          => /\ session_state'.manual_results = <<>>
             /\ session_state'.final_redirect_csv
                   = Some(Merge(Get(session_state'.matched).final, <<>>))
       /\ session_state.final_redirect_csv # None
          => session_state'.final_redirect_csv
                = session_state.final_redirect_csv]_vars

\* C19: whenever matched is set the export step has succeeded: the last run
\* ended without an error and the export table is stored.
C19_ExportSucceeds ==
    HasMatched
    => /\ error = ""
       /\ session_state.final_redirect_csv # None

=============================================================================
